---------------------------- MODULE Spec2Model ----------------------------
(***************************************************************************)
(* Region proposals of sleap/nn/region_proposal.py: centred bounding       *)
(* boxes, pixel-inclusive IoU, candidate merging, non-max suppression,     *)
(* grouping by sample and by size, and the proposal sets built from them.  *)
(*                                                                         *)
(* Coordinates are float32 numbers in the source (centroids are a float32  *)
(* array and every box is derived from them in place).  A coordinate is    *)
(* stored as an integer number of 2^-23 pixel, the spacing of float32      *)
(* between 1 and 2, and every sum that the source stores in a float32 is   *)
(* rounded to float32 as IEEE 754 rounds it (F32).  Coordinates on the     *)
(* quarter-pixel grid (centroids on the half-pixel grid, the 0.5 centre    *)
(* offset, one halving at the merge midpoint) are exact in float32; boxes  *)
(* that are compared with each other are on that grid, and areas are       *)
(* computed in quarter pixels.  A ratio (an IoU, a threshold, a normalised *)
(* coordinate) is stored as numerator and denominator.                     *)
(***************************************************************************)
EXTENDS Integers, Sequences, FiniteSets, TLC

VARIABLES
    \* one call of a function of the module and what it returned
    call, ret,
    \* extract_region_proposals: its arguments, its locals and its position
    pc,
    centroids, centroid_vals, instance_box_length, merged_box_length,
    merge_iou_threshold, nms_iou_threshold,
    all_bboxes, sample_grouped_bboxes, sample_grouped_bbox_scores,
    pending, sample, candidate_bboxes, candidate_bbox_scores, merged_bboxes,
    size_grouped_bboxes, size_grouped_sample_inds, region_proposal_sets

lib_vars == <<call, ret>>
arg_vars == <<centroids, centroid_vals, instance_box_length, merged_box_length,
              merge_iou_threshold, nms_iou_threshold>>
local_vars == <<all_bboxes, sample_grouped_bboxes, sample_grouped_bbox_scores,
                pending, sample, candidate_bboxes, candidate_bbox_scores,
                merged_bboxes, size_grouped_bboxes, size_grouped_sample_inds,
                region_proposal_sets>>
vars == <<lib_vars, pc, arg_vars, local_vars>>

---------------------------------------------------------------------------
(* Numbers *)

\* Units per pixel: one unit is 2^-23 pixel.
Q == 8388608

\* Units per quarter pixel: the 0.5 of `bboxes += 0.5` halved once more by
\* the `/ 2` of the merge midpoint.
G == Q \div 4

\* A length on the quarter-pixel grid, in quarter pixels.
Quarters(v) == v \div G

\* The spacing of float32 at magnitude a, in units: 1 below 2 pixels, and
\* doubling with every doubling of a.  (Below 1 pixel float32 is finer than
\* one unit, so every whole number of units is a float32 there.)
RECURSIVE Ulp(_)
Ulp(a) == IF a < 2 * Q THEN 1 ELSE 2 * Ulp(a \div 2)

\* v rounded to the nearest float32, a tie to the even significand.
F32(v) ==
    LET a == IF v >= 0 THEN v ELSE -v
        u == Ulp(a)
        q == a \div u
        r == a % u
        n == IF 2 * r < u THEN q
             ELSE IF 2 * r > u THEN q + 1
             ELSE IF q % 2 = 0 THEN q ELSE q + 1
    IN IF v >= 0 THEN n * u ELSE -(n * u)

Max(a, b) == IF a >= b THEN a ELSE b
Min(a, b) == IF a <= b THEN a ELSE b

\* Python's a // 2 (floor division; the unary minus of `-box_length // 2`
\* binds tighter than //, so that expression is FloorDiv2(-box_length)).
FloorDiv2(a) == a \div 2

\* A ratio num/den as numpy evaluates it; den = 0 gives inf or nan.
Ratio(num, den) == [num |-> num, den |-> den]

\* r > thr for a ratio r and a threshold thr with thr.den > 0.
\* x/0 is +inf for x > 0, -inf for x < 0 and nan for x = 0 (never greater).
RatioGreater(r, thr) ==
    IF r.den > 0 THEN r.num * thr.den > thr.num * r.den
    ELSE IF r.den < 0 THEN r.num * thr.den < thr.num * r.den
    ELSE r.num > 0

---------------------------------------------------------------------------
(* make_centered_bboxes *)

\* A (n, k) array: shape1 is k, rows the n rows.
Array(k, rows) == [shape1 |-> k, rows |-> rows]

Returned(v) == [raised |-> "none", value |-> v]
Raised(e) == [raised |-> e, value |-> <<>>]

\* The same half length on both sides, -(L // 2) and L // 2.
BoxOffsetsSymmetric(box_length) ==
    << -FloorDiv2(box_length), -FloorDiv2(box_length),
       FloorDiv2(box_length), FloorDiv2(box_length) >>

\* The longer side below and right of the point.
BoxOffsetsBottomRight(box_length) ==
    << -FloorDiv2(box_length), -FloorDiv2(box_length),
       box_length - FloorDiv2(box_length), box_length - FloorDiv2(box_length) >>

\* The row added to every box: [-L // 2, -L // 2, L // 2, L // 2], in pixels.
BoxOffsets(box_length) ==
    << FloorDiv2(-box_length), FloorDiv2(-box_length),
       FloorDiv2(box_length), FloorDiv2(box_length) >>

\* The (y, x) subscripts of one row of a 2-column or 4-column array.
CentroidYX(shape1, row) ==
    IF shape1 = 2 THEN <<row[1], row[2]>> ELSE <<row[2], row[3]>>

\* `bboxes += np.array([[...]])` for one coordinate: the sum stored back
\* into the float32 array.
AddOffset(v, offset) == F32(v + offset * Q)

\* `if center_offset: bboxes += 0.5`
CenterAdjust(v, center_offset) ==
    IF center_offset THEN F32(v + Q \div 2) ELSE v

\* A column count other than 2 or 4 leaves centroids_y unbound, and the
\* np.concatenate that reads it raises UnboundLocalError.
make_centered_bboxes(cs, box_length, center_offset) ==
    IF cs.shape1 \notin {2, 4}
    THEN Raised("UnboundLocalError")
    ELSE LET off == BoxOffsets(box_length)
             yx(k) == CentroidYX(cs.shape1, cs.rows[k])
         IN Returned([k \in 1..Len(cs.rows) |->
                << CenterAdjust(AddOffset(yx(k)[1], off[1]), center_offset),
                   CenterAdjust(AddOffset(yx(k)[2], off[2]), center_offset),
                   CenterAdjust(AddOffset(yx(k)[1], off[3]), center_offset),
                   CenterAdjust(AddOffset(yx(k)[2], off[4]), center_offset) >>])

---------------------------------------------------------------------------
(* compute_iou *)

\* One pixel-inclusive extent, hi - lo + 1, in quarter pixels.
Extent(lo, hi) == Quarters(hi - lo + Q)

\* The extents of the intersection not clamped at 0.
IntersectionAreaUnclamped(bbox1, bbox2) ==
    Extent(Max(bbox1[2], bbox2[2]), Min(bbox1[4], bbox2[4]))
        * Extent(Max(bbox1[1], bbox2[1]), Min(bbox1[3], bbox2[3]))

\* max(x2 - x1 + 1, 0) * max(y2 - y1 + 1, 0) of the intersection.
IntersectionArea(bbox1, bbox2) ==
    Max(Extent(Max(bbox1[2], bbox2[2]), Min(bbox1[4], bbox2[4])), 0)
        * Max(Extent(Max(bbox1[1], bbox2[1]), Min(bbox1[3], bbox2[3])), 0)

BoxArea(bbox) == Extent(bbox[2], bbox[4]) * Extent(bbox[1], bbox[3])

UnionArea(bbox1, bbox2) ==
    BoxArea(bbox1) + BoxArea(bbox2) - IntersectionArea(bbox1, bbox2)

compute_iou(bbox1, bbox2) ==
    Ratio(IntersectionArea(bbox1, bbox2), UnionArea(bbox1, bbox2))

---------------------------------------------------------------------------
(* generate_merged_bboxes *)

\* itertools.combinations(range(n), 2): the pairs (i, j), i < j, in
\* lexicographic order, as 1-based positions.
RECURSIVE Combinations2From(_, _, _)
Combinations2From(i, j, n) ==
    IF i >= n THEN <<>>
    ELSE IF j > n THEN Combinations2From(i + 1, i + 2, n)
    ELSE << <<i, j>> >> \o Combinations2From(i, j + 1, n)

Combinations2(n) == Combinations2From(1, 2, n)

\* `compute_iou(bbox_i, bbox_j) > merge_iou_threshold`
Overlaps(bbox_i, bbox_j, threshold) ==
    RatioGreater(compute_iou(bbox_i, bbox_j), threshold)

\* The pairs that generate a merged box, in the order they are visited.
\* zip() stops at the shorter of the two sequences.
MergedPairs(bboxes, bbox_scores, merge_threshold) ==
    SelectSeq(Combinations2(Min(Len(bboxes), Len(bbox_scores))),
              LAMBDA p : Overlaps(bboxes[p[1]], bboxes[p[2]], merge_threshold))

\* The midpoint of the centres of the two boxes.
MergedCentroidOfCenters(bbox_i, bbox_j) ==
    << (bbox_i[1] + bbox_i[3] + bbox_j[1] + bbox_j[3]) \div 4,
       (bbox_i[2] + bbox_i[4] + bbox_j[2] + bbox_j[4]) \div 4 >>

\* [(bbox_i[0] + bbox_j[2]) / 2, (bbox_i[1] + bbox_j[3]) / 2]: a float32
\* sum, and a halving that is exact.
MergedCentroid(bbox_i, bbox_j) ==
    << F32(bbox_i[1] + bbox_j[3]) \div 2, F32(bbox_i[2] + bbox_j[4]) \div 2 >>

MergedScore(score_i, score_j) == score_i + score_j

\* The merged boxes ahead of the originals, as merge_bboxes orders them.
ConcatMergedFirst(originals, merged) == merged \o originals

\* np.concatenate((originals, merged), axis=0)
Concat(originals, merged) == originals \o merged

generate_merged_bboxes(bboxes, bbox_scores, merged_len, merge_threshold) ==
    LET pairs == MergedPairs(bboxes, bbox_scores, merge_threshold)
        merged_centroids ==
            [k \in 1..Len(pairs) |->
                MergedCentroid(bboxes[pairs[k][1]], bboxes[pairs[k][2]])]
        merged_scores ==
            [k \in 1..Len(pairs) |->
                MergedScore(bbox_scores[pairs[k][1]], bbox_scores[pairs[k][2]])]
        merged ==
            IF Len(merged_centroids) > 0
            THEN make_centered_bboxes(Array(2, merged_centroids),
                                      merged_len, FALSE).value
            ELSE <<>>
    IN [bboxes |-> Concat(bboxes, merged),
        scores |-> Concat(bbox_scores, merged_scores)]

---------------------------------------------------------------------------
(* nms_bboxes *)

\* The IoU of tf.image.non_max_suppression_with_scores: corners in either
\* order, areas without the +1 of compute_iou, and 0 for an empty box.
\* Areas are in quarter pixels.
TFArea(b) ==
    Quarters(Max(b[1], b[3]) - Min(b[1], b[3]))
        * Quarters(Max(b[2], b[4]) - Min(b[2], b[4]))

TFIntersection(bi, bj) ==
    Quarters(Max(Min(Max(bi[1], bi[3]), Max(bj[1], bj[3]))
               - Max(Min(bi[1], bi[3]), Min(bj[1], bj[3])), 0))
      * Quarters(Max(Min(Max(bi[2], bi[4]), Max(bj[2], bj[4]))
                   - Max(Min(bi[2], bi[4]), Min(bj[2], bj[4])), 0))

TFIou(bi, bj) ==
    IF TFArea(bi) <= 0 \/ TFArea(bj) <= 0
    THEN Ratio(0, 1)
    ELSE Ratio(TFIntersection(bi, bj),
               TFArea(bi) + TFArea(bj) - TFIntersection(bi, bj))

\* The positions of S by decreasing score, the lower position first among
\* equal scores.
RECURSIVE ByScore(_, _)
ByScore(S, scores) ==
    IF S = {} THEN <<>>
    ELSE LET best == CHOOSE i \in S : \A j \in S :
                        \/ scores[i] > scores[j]
                        \/ scores[i] = scores[j] /\ i <= j
         IN <<best>> \o ByScore(S \ {best}, scores)

\* No candidate is ever suppressed.
KeepsAll(bboxes, selected, c, iou_threshold) == TRUE

\* A candidate is kept unless its IoU with a box already selected exceeds
\* the threshold.
Keeps(bboxes, selected, c, iou_threshold) ==
    \A k \in 1..Len(selected) :
        ~RatioGreater(TFIou(bboxes[c], bboxes[selected[k]]), iou_threshold)

\* The selection ignores max_output_size.
NmsDoneUncapped(queue, selected, max_output_size) == queue = <<>>

\* The selection stops at max_output_size boxes or when no candidate is left.
NmsDone(queue, selected, max_output_size) ==
    Len(selected) >= max_output_size \/ queue = <<>>

RECURSIVE NmsSelect(_, _, _, _, _)
NmsSelect(bboxes, queue, selected, max_output_size, iou_threshold) ==
    IF NmsDone(queue, selected, max_output_size) THEN selected
    ELSE NmsSelect(bboxes, Tail(queue),
                   IF Keeps(bboxes, selected, Head(queue), iou_threshold)
                   THEN Append(selected, Head(queue)) ELSE selected,
                   max_output_size, iou_threshold)

\* selected_indices of tf.image.non_max_suppression_with_scores (hard NMS:
\* soft_nms_sigma = 0, no score threshold), as 1-based positions.
non_max_suppression_with_scores(bboxes, bbox_scores, max_output_size, iou_threshold) ==
    NmsSelect(bboxes, ByScore(1..Len(bboxes), bbox_scores), <<>>,
              max_output_size, iou_threshold)

\* bboxes[selected_indices.numpy()]
Take(bboxes, selected_indices) ==
    [k \in 1..Len(selected_indices) |-> bboxes[selected_indices[k]]]

\* max_boxes defaults to 128 (line 123).
DefaultMaxBoxes == 128

nms_bboxes(bboxes, bbox_scores, iou_threshold, max_boxes) ==
    Take(bboxes,
         non_max_suppression_with_scores(bboxes, bbox_scores, max_boxes,
                                         iou_threshold))

---------------------------------------------------------------------------
(* normalize_bboxes *)

\* bboxes / [[h, w, h, w]] with h = img_height - 1.0 and w = img_width - 1.0.
\* numpy divides by zero without raising: the quotient is inf or nan.
normalize_bboxes(bboxes, img_height, img_width) ==
    LET h == img_height - 1
        w == img_width - 1
    IN [k \in 1..Len(bboxes) |->
            << Ratio(bboxes[k][1], h * Q), Ratio(bboxes[k][2], w * Q),
               Ratio(bboxes[k][3], h * Q), Ratio(bboxes[k][4], w * Q) >>]

---------------------------------------------------------------------------
(* Grouping *)

\* A Python dict: its keys in insertion order and the value of each key.
EmptyDict == [keys |-> <<>>, val |-> <<>>]

HasKey(d, key) == \E k \in 1..Len(d.keys) : d.keys[k] = key

\* d[key] = value for a key not yet in d.
DictPut(d, key, value) ==
    [keys |-> Append(d.keys, key), val |-> (key :> value) @@ d.val]

\* defaultdict(list): d[key].append(x).
DictAppend(d, key, x) ==
    IF HasKey(d, key)
    THEN [d EXCEPT !.val[key] = Append(@, x)]
    ELSE DictPut(d, key, <<x>>)

\* The elements of the set S of integers in increasing order.
RECURSIVE Ascending(_)
Ascending(S) ==
    IF S = {} THEN <<>>
    ELSE LET least == CHOOSE a \in S : \A b \in S : a <= b
         IN <<least>> \o Ascending(S \ {least})

\* The elements of X whose group is g, in their order in X.
RECURSIVE TakeGroup(_, _, _, _)
TakeGroup(X, groups, g, k) ==
    IF k > Len(X) THEN <<>>
    ELSE (IF groups[k] = g THEN <<X[k]>> ELSE <<>>)
            \o TakeGroup(X, groups, g, k + 1)

\* utils.group_array: X split by group, a dict keyed by the distinct groups.
group_array(X, groups) ==
    LET keys == Ascending({groups[k] : k \in 1..Len(groups)})
    IN [keys |-> keys,
        val |-> [g \in {groups[k] : k \in 1..Len(groups)} |->
                    TakeGroup(X, groups, g, 1)]]

\* int(x): truncation towards zero.
IntOf(u) == IF u >= 0 THEN u \div Q ELSE -((-u) \div Q)

\* (int(bbox[2] - bbox[0]), int(bbox[3] - bbox[1])), each difference a
\* float32.
BoxSize(bbox) ==
    <<IntOf(F32(bbox[3] - bbox[1])), IntOf(F32(bbox[4] - bbox[2]))>>

\* merged_bboxes.items() flattened: every (sample_ind, bbox) the two nested
\* loops visit, in the order they visit them.
RECURSIVE Items(_, _)
Items(d, k) ==
    IF k > Len(d.keys) THEN <<>>
    ELSE [i \in 1..Len(d.val[d.keys[k]]) |->
              [sample_ind |-> d.keys[k], bbox |-> d.val[d.keys[k]][i]]]
         \o Items(d, k + 1)

\* The size groups after the first k items.
RECURSIVE SizeGroups(_, _)
SizeGroups(items, k) ==
    IF k = 0 THEN [bboxes |-> EmptyDict, sample_inds |-> EmptyDict]
    ELSE LET acc == SizeGroups(items, k - 1)
             box_size == BoxSize(items[k].bbox)
         IN [bboxes |-> DictAppend(acc.bboxes, box_size, items[k].bbox),
             sample_inds |->
                 DictAppend(acc.sample_inds, box_size, items[k].sample_ind)]

\* Height and width of the images, imgs.shape[1] and imgs.shape[2].
ImgHeight == 64
ImgWidth == 48

\* tf.image.crop_and_resize: one patch per box, cut from image
\* box_indices[k] at boxes[k] and resized to crop_size.
crop_and_resize(boxes, box_indices, crop_size) ==
    [k \in 1..Len(boxes) |->
        [image |-> box_indices[k], box |-> boxes[k], size |-> crop_size]]

RegionProposalSet(box_size, sample_inds_, bboxes) ==
    [box_size |-> box_size,
     sample_inds |-> sample_inds_,
     bboxes |-> bboxes,
     patches |-> crop_and_resize(normalize_bboxes(bboxes, ImgHeight, ImgWidth),
                                 sample_inds_, box_size)]

---------------------------------------------------------------------------
(* Inputs of single calls *)

\* Longest sequence of points or boxes passed to one call.
MaxBoxes == 3
\* Largest box length passed to one call; the smallest is MinBoxLength.
MaxBoxLength == 5
\* Largest corner coordinate, in pixels, of the boxes compared by compute_iou.
MaxCorner == 2

MinBoxLength == 0 - 2

SeqsUpTo(S, n) == UNION {[1..k -> S] : k \in 0..n}

BoxLengths == MinBoxLength..MaxBoxLength

\* (row, col) of the points boxes are centred on: (0, 0), (1.5, 2), (2, 0.5).
Points == { <<0, 0>>, <<6 * G, 8 * G>>, <<8 * G, 2 * G>> }

\* A row of a k-column centroid array holding the point p.
RowOf(k, p) ==
    IF k = 2 THEN p
    ELSE IF k = 3 THEN <<p[1], p[2], 0>>
    ELSE <<0, p[1], p[2], 0>>

\* Boxes [y1, x1, y2, x2]: (0, 0, 2, 1) and (1, 0, 3, 2), which overlap, and
\* (5, 5, 6, 7) apart from them.
Boxes ==
    { <<0, 0, 8 * G, 4 * G>>, <<4 * G, 0, 12 * G, 8 * G>>,
      <<20 * G, 20 * G, 24 * G, 28 * G>> }

Scores == {1, 2}

\* Thresholds: 0.1, the default of merging and below the IoU of the two
\* overlapping Boxes, and that IoU itself: 4/11 under compute_iou, 1/5
\* under the IoU of suppression.
MergeThresholds == { Ratio(1, 10), Ratio(4, 11) }
NmsThresholds == { Ratio(1, 10), Ratio(1, 5) }

ImageDims == {0, 1, 9}

\* Valid boxes (y2 >= y1, x2 >= x1) with whole-pixel corners up to MaxCorner.
ValidBoxes ==
    { b \in { <<y1 * Q, x1 * Q, y2 * Q, x2 * Q>> :
                y1 \in 0..MaxCorner, x1 \in 0..MaxCorner,
                y2 \in 0..MaxCorner, x2 \in 0..MaxCorner } :
        b[3] >= b[1] /\ b[4] >= b[2] }

ScoredBoxSeqs ==
    UNION { [1..k -> Boxes] \X [1..k -> Scores] : k \in 0..MaxBoxes }

Calls ==
    { [fn |-> "make_centered_bboxes",
       centroids |-> Array(k, [i \in 1..Len(ps) |-> RowOf(k, ps[i])]),
       box_length |-> l, center_offset |-> c] :
        k \in {2, 3, 4}, ps \in SeqsUpTo(Points, MaxBoxes),
        l \in BoxLengths, c \in BOOLEAN }
    \cup
    { [fn |-> "compute_iou", bbox1 |-> a, bbox2 |-> b] :
        a \in ValidBoxes, b \in ValidBoxes }
    \cup
    { [fn |-> "generate_merged_bboxes", bboxes |-> bs[1], bbox_scores |-> bs[2],
       merged_box_length |-> l, merge_iou_threshold |-> t] :
        bs \in ScoredBoxSeqs, l \in BoxLengths, t \in MergeThresholds }
    \cup
    { [fn |-> "nms_bboxes", bboxes |-> bs[1], bbox_scores |-> bs[2],
       iou_threshold |-> t, max_boxes |-> m] :
        bs \in ScoredBoxSeqs, t \in NmsThresholds, m \in 0..MaxBoxes }
    \cup
    { [fn |-> "normalize_bboxes", bboxes |-> bs,
       img_height |-> h, img_width |-> w] :
        bs \in SeqsUpTo(Boxes, 2), h \in ImageDims, w \in ImageDims }

Pending == [raised |-> "pending", value |-> <<>>]

\* extract_region_proposals not called.
Idle ==
    /\ pc = "idle"
    /\ centroids = Array(4, <<>>)
    /\ centroid_vals = <<>>
    /\ instance_box_length = 0
    /\ merged_box_length = 0
    /\ merge_iou_threshold = Ratio(0, 1)
    /\ nms_iou_threshold = Ratio(0, 1)
    /\ all_bboxes = <<>>
    /\ sample_grouped_bboxes = EmptyDict
    /\ sample_grouped_bbox_scores = EmptyDict
    /\ pending = <<>>
    /\ sample = 0
    /\ candidate_bboxes = <<>>
    /\ candidate_bbox_scores = <<>>
    /\ merged_bboxes = EmptyDict
    /\ size_grouped_bboxes = EmptyDict
    /\ size_grouped_sample_inds = EmptyDict
    /\ region_proposal_sets = <<>>

InitCalls ==
    /\ call \in Calls
    /\ ret = Pending
    /\ Idle

Apply(fn, result) ==
    /\ call.fn = fn
    /\ ret = Pending
    /\ ret' = result
    /\ UNCHANGED <<call, pc, arg_vars, local_vars>>

Call_make_centered_bboxes ==
    Apply("make_centered_bboxes",
          make_centered_bboxes(call.centroids, call.box_length,
                               call.center_offset))

Call_compute_iou ==
    Apply("compute_iou", Returned(compute_iou(call.bbox1, call.bbox2)))

Call_generate_merged_bboxes ==
    Apply("generate_merged_bboxes",
          Returned(generate_merged_bboxes(call.bboxes, call.bbox_scores,
                                          call.merged_box_length,
                                          call.merge_iou_threshold)))

Call_nms_bboxes ==
    Apply("nms_bboxes",
          Returned(nms_bboxes(call.bboxes, call.bbox_scores,
                              call.iou_threshold, call.max_boxes)))

Call_normalize_bboxes ==
    Apply("normalize_bboxes",
          Returned(normalize_bboxes(call.bboxes, call.img_height,
                                    call.img_width)))

NextCalls ==
    \/ Call_make_centered_bboxes
    \/ Call_compute_iou
    \/ Call_generate_merged_bboxes
    \/ Call_nms_bboxes
    \/ Call_normalize_bboxes

SpecCalls == InitCalls /\ [][NextCalls]_vars

---------------------------------------------------------------------------
(* extract_region_proposals *)

\* Most centroids of one call.
MaxCentroids == 3
\* Largest merged_box_length of the two-centroid scenario.
MaxMergedLength == 42

\* Centroid rows (sample, row, col, channel): in sample 0 at (2, 2),
\* (3, 3.5) and (2, 9), in sample 1 at (2, 2).
CentroidRows ==
    { <<0, 8 * G, 8 * G, 0>>, <<0, 12 * G, 14 * G, 0>>,
      <<0, 8 * G, 36 * G, 0>>, <<1, 8 * G, 8 * G, 0>> }

\* A centroid off the grid, alone in sample 2: the peak subscripts (5, 5)
\* divided by an output_scale of 0.75 as predict_centroids divides them,
\* float32(5 / 0.75) = 6.6666665 pixels.
ScaledPeakRow == <<2, 55924052, 55924052, 0>>

InstanceLengths == {3, 4}
MergedLengths == {4, 5, 8}

\* Centroids at (10, 10) and (12, 12) of sample 0, boxes of length 20.
ScenarioCentroids ==
    << <<0, 40 * G, 40 * G, 0>>, <<0, 48 * G, 48 * G, 0>> >>

Configs ==
    { [centroids |-> cs[1], centroid_vals |-> cs[2],
       instance_box_length |-> l, merged_box_length |-> m] :
        cs \in UNION { [1..k -> CentroidRows] \X [1..k -> Scores] :
                        k \in 0..MaxCentroids },
        l \in InstanceLengths, m \in MergedLengths }
    \cup
    { [centroids |-> Append(cs[1], ScaledPeakRow),
       centroid_vals |-> Append(cs[2], v),
       instance_box_length |-> l, merged_box_length |-> m] :
        cs \in UNION { [1..k -> CentroidRows] \X [1..k -> Scores] :
                        k \in 0..(MaxCentroids - 1) },
        v \in Scores, l \in InstanceLengths, m \in MergedLengths }
    \cup
    { [centroids |-> ScenarioCentroids, centroid_vals |-> v,
       instance_box_length |-> 20, merged_box_length |-> m] :
        v \in [1..2 -> Scores], m \in 20..MaxMergedLength }

InitExtract ==
    /\ call = [fn |-> "extract_region_proposals"]
    /\ ret = Pending
    /\ pc = "boxes"
    /\ \E c \in Configs :
        /\ centroids = Array(4, c.centroids)
        /\ centroid_vals = c.centroid_vals
        /\ instance_box_length = c.instance_box_length
        /\ merged_box_length = c.merged_box_length
    /\ merge_iou_threshold = Ratio(1, 10)
    /\ nms_iou_threshold = Ratio(1, 4)
    /\ all_bboxes = <<>>
    /\ sample_grouped_bboxes = EmptyDict
    /\ sample_grouped_bbox_scores = EmptyDict
    /\ pending = <<>>
    /\ sample = 0
    /\ candidate_bboxes = <<>>
    /\ candidate_bbox_scores = <<>>
    /\ merged_bboxes = EmptyDict
    /\ size_grouped_bboxes = EmptyDict
    /\ size_grouped_sample_inds = EmptyDict
    /\ region_proposal_sets = <<>>

\* Line 354: the initial boxes, one per centroid.
MakeInitialBoxes ==
    /\ pc = "boxes"
    /\ all_bboxes' =
         make_centered_bboxes(centroids, instance_box_length, TRUE).value
    /\ pc' = "group"
    /\ UNCHANGED <<lib_vars, arg_vars, sample_grouped_bboxes,
                   sample_grouped_bbox_scores, pending, sample,
                   candidate_bboxes, candidate_bbox_scores, merged_bboxes,
                   size_grouped_bboxes, size_grouped_sample_inds,
                   region_proposal_sets>>

\* Lines 356-362: boxes and scores grouped by sample index.
GroupBySample ==
    /\ pc = "group"
    /\ LET sample_inds ==
               [k \in 1..Len(centroids.rows) |-> centroids.rows[k][1]]
           grouped == group_array(all_bboxes, sample_inds)
       IN /\ sample_grouped_bboxes' = grouped
          /\ sample_grouped_bbox_scores' =
                 group_array(centroid_vals, sample_inds)
          /\ pending' = grouped.keys
          /\ pc' = IF grouped.keys = <<>> THEN "size" ELSE "merge"
    /\ merged_bboxes' = EmptyDict
    /\ UNCHANGED <<lib_vars, arg_vars, all_bboxes, sample, candidate_bboxes,
                   candidate_bbox_scores, size_grouped_bboxes,
                   size_grouped_sample_inds, region_proposal_sets>>

\* Lines 363-371: the candidates of the next sample.
GenerateCandidates ==
    /\ pc = "merge"
    /\ sample' = Head(pending)
    /\ LET merged == generate_merged_bboxes(
                         sample_grouped_bboxes.val[Head(pending)],
                         sample_grouped_bbox_scores.val[Head(pending)],
                         merged_box_length, merge_iou_threshold)
       IN /\ candidate_bboxes' = merged.bboxes
          /\ candidate_bbox_scores' = merged.scores
    /\ pc' = "nms"
    /\ UNCHANGED <<lib_vars, arg_vars, all_bboxes, sample_grouped_bboxes,
                   sample_grouped_bbox_scores, pending, merged_bboxes,
                   size_grouped_bboxes, size_grouped_sample_inds,
                   region_proposal_sets>>

\* Lines 373-376: the candidates of the sample suppressed, max_boxes left at
\* its default.
Suppress ==
    /\ pc = "nms"
    /\ merged_bboxes' =
         DictPut(merged_bboxes, sample,
                 nms_bboxes(candidate_bboxes, candidate_bbox_scores,
                            nms_iou_threshold, DefaultMaxBoxes))
    /\ pending' = Tail(pending)
    /\ pc' = IF Tail(pending) = <<>> THEN "size" ELSE "merge"
    /\ UNCHANGED <<lib_vars, arg_vars, all_bboxes, sample_grouped_bboxes,
                   sample_grouped_bbox_scores, sample, candidate_bboxes,
                   candidate_bbox_scores, size_grouped_bboxes,
                   size_grouped_sample_inds, region_proposal_sets>>

\* Lines 378-389: the surviving boxes of all samples grouped by size.
GroupBySize ==
    /\ pc = "size"
    /\ LET items == Items(merged_bboxes, 1)
           groups == SizeGroups(items, Len(items))
       IN /\ size_grouped_bboxes' = groups.bboxes
          /\ size_grouped_sample_inds' = groups.sample_inds
    /\ pc' = "sets"
    /\ UNCHANGED <<lib_vars, arg_vars, all_bboxes, sample_grouped_bboxes,
                   sample_grouped_bbox_scores, pending, sample,
                   candidate_bboxes, candidate_bbox_scores, merged_bboxes,
                   region_proposal_sets>>

\* Lines 391-412: one proposal set per size, and the return.
BuildProposalSets ==
    /\ pc = "sets"
    /\ region_proposal_sets' =
         [k \in 1..Len(size_grouped_bboxes.keys) |->
            RegionProposalSet(
                size_grouped_bboxes.keys[k],
                size_grouped_sample_inds.val[size_grouped_bboxes.keys[k]],
                size_grouped_bboxes.val[size_grouped_bboxes.keys[k]])]
    /\ pc' = "done"
    /\ ret' = Returned("region_proposal_sets")
    /\ UNCHANGED <<call, arg_vars, all_bboxes, sample_grouped_bboxes,
                   sample_grouped_bbox_scores, pending, sample,
                   candidate_bboxes, candidate_bbox_scores, merged_bboxes,
                   size_grouped_bboxes, size_grouped_sample_inds>>

NextExtract ==
    \/ MakeInitialBoxes
    \/ GroupBySample
    \/ GenerateCandidates
    \/ Suppress
    \/ GroupBySize
    \/ BuildProposalSets

SpecExtract == InitExtract /\ [][NextExtract]_vars

\* Single calls and extract_region_proposals together.
Init == InitCalls \/ InitExtract

Next == NextCalls \/ NextExtract

Spec == Init /\ [][Next]_vars

---------------------------------------------------------------------------
(* Properties of generate_merged_bboxes *)

MergeReturned == call.fn = "generate_merged_bboxes" /\ ret.raised = "none"

\* C1: the output of generate_merged_bboxes starts with its input: for every
\* index k below the input count n, output box k is input box k and output
\* score k is input score k; whatever it generates comes after them, and
\* boxes and scores stay index-aligned.
MergeOutputStartsWithInput ==
    MergeReturned =>
        LET n == Len(call.bboxes)
        IN /\ Len(ret.value.bboxes) >= n
           /\ Len(ret.value.scores) = Len(ret.value.bboxes)
           /\ \A k \in 1..n :
                /\ ret.value.bboxes[k] = call.bboxes[k]
                /\ ret.value.scores[k] = call.bbox_scores[k]

\* Two or more input boxes, and at least one merged box generated.
MergeOutputStartsWithInputWitness ==
    /\ MergeReturned
    /\ Len(call.bboxes) >= 2
    /\ Len(ret.value.bboxes) > Len(call.bboxes)
    /\ call.bboxes[1] # call.bboxes[2]

\* The pixel-inclusive IoU of a and b exceeds thr: with
\* w = max(min(x2) - max(x1) + 1, 0) and h likewise, and area(b) =
\* (x2 - x1 + 1) * (y2 - y1 + 1), w * h / (area(a) + area(b) - w * h) > thr.
PixelInclusiveIoUExceeds(a, b, thr) ==
    LET w == Quarters(Max(Min(a[4], b[4]) - Max(a[2], b[2]) + Q, 0))
        h == Quarters(Max(Min(a[3], b[3]) - Max(a[1], b[1]) + Q, 0))
        area_a == Quarters(a[4] - a[2] + Q) * Quarters(a[3] - a[1] + Q)
        area_b == Quarters(b[4] - b[2] + Q) * Quarters(b[3] - b[1] + Q)
    IN (w * h) * thr.den > thr.num * (area_a + area_b - w * h)

\* The pairs (i, j), i < j, of input boxes that overlap by more than thr.
QualifyingPairs(bboxes, thr) ==
    { p \in (1..Len(bboxes)) \X (1..Len(bboxes)) :
        p[1] < p[2] /\ PixelInclusiveIoUExceeds(bboxes[p[1]], bboxes[p[2]], thr) }

\* The position of pair p among the pairs S, counted in the order (i, j)
\* increases lexicographically.
PairRank(S, p) ==
    Cardinality({ q \in S : q[1] < p[1] \/ (q[1] = p[1] /\ q[2] <= p[2]) })

---------------------------------------------------------------------------
(* Properties of make_centered_bboxes *)

CenteredReturned == call.fn = "make_centered_bboxes" /\ ret.raised = "none"

\* The point of row k of the centroid array of the call.
PointOfRow(k) ==
    IF call.centroids.shape1 = 2
    THEN <<call.centroids.rows[k][1], call.centroids.rows[k][2]>>
    ELSE <<call.centroids.rows[k][2], call.centroids.rows[k][3]>>

OddLengthExtendsBottomRight ==
    (CenteredReturned /\ call.box_length > 0 /\ ~call.center_offset) =>
        \A k \in 1..Len(ret.value) :
            LET b == ret.value[k]
                pt == PointOfRow(k)
                extra == IF call.box_length % 2 = 1 THEN Q ELSE 0
            IN /\ b[3] - pt[1] = (pt[1] - b[1]) + extra
               /\ b[4] - pt[2] = (pt[2] - b[2]) + extra

\* C9, amended: for odd L > 0 and no centre offset the box reaches one unit
\* further above and left of the point than below and right of it,
\* (row - y1) = (y2 - row) + 1 and (col - x1) = (x2 - col) + 1, with
\* y2 - row = x2 - col = floor(L / 2); for even L the two sides are equal.
OddLengthExtendsTopLeft ==
    (CenteredReturned /\ call.box_length > 0 /\ ~call.center_offset) =>
        \A k \in 1..Len(ret.value) :
            LET b == ret.value[k]
                pt == PointOfRow(k)
                extra == IF call.box_length % 2 = 1 THEN Q ELSE 0
            IN /\ pt[1] - b[1] = (b[3] - pt[1]) + extra
               /\ pt[2] - b[2] = (b[4] - pt[2]) + extra
               /\ b[3] - pt[1] = (call.box_length \div 2) * Q
               /\ b[4] - pt[2] = (call.box_length \div 2) * Q

\* A box of odd length built without the centre offset.
OddLengthExtendsTopLeftWitness ==
    /\ CenteredReturned
    /\ call.box_length = 5
    /\ ~call.center_offset
    /\ Len(ret.value) >= 1
    /\ ret.value[1][3] - ret.value[1][1] = 5 * Q

---------------------------------------------------------------------------
(* Properties of compute_iou *)

IouReturned == call.fn = "compute_iou" /\ ret.raised = "none"

\* The two boxes share no pixel: min(x2) - max(x1) + 1 <= 0 or
\* min(y2) - max(y1) + 1 <= 0.
ShareNoPixel(a, b) ==
    \/ Min(a[4], b[4]) - Max(a[2], b[2]) + Q <= 0
    \/ Min(a[3], b[3]) - Max(a[1], b[1]) + Q <= 0

\* C7: for valid boxes A and B, iou(A, A) = 1, iou(A, B) = iou(B, A), and
\* iou(A, B) = 0 whenever the two boxes share no pixel; the union area it
\* divides by is never zero.
IouReflexiveSymmetricZeroWhenDisjoint ==
    IouReturned =>
        LET swapped == compute_iou(call.bbox2, call.bbox1)
        IN /\ ret.value.den > 0
           /\ call.bbox1 = call.bbox2 => ret.value.num = ret.value.den
           /\ swapped.den > 0
           /\ ret.value.num * swapped.den = swapped.num * ret.value.den
           /\ ShareNoPixel(call.bbox1, call.bbox2) => ret.value.num = 0

\* Two boxes apart in both directions, and a box compared with itself.
IouReflexiveSymmetricZeroWhenDisjointWitness ==
    /\ IouReturned
    /\ Min(call.bbox1[4], call.bbox2[4]) - Max(call.bbox1[2], call.bbox2[2]) + Q < 0
    /\ Min(call.bbox1[3], call.bbox2[3]) - Max(call.bbox1[1], call.bbox2[1]) + Q < 0
    /\ ret.value.num = 0

---------------------------------------------------------------------------
(* Properties of nms_bboxes *)

NmsReturned == call.fn = "nms_bboxes" /\ ret.raised = "none"

\* Every box of out is a box of in.
AllAmong(out, in) ==
    \A k \in 1..Len(out) : \E i \in 1..Len(in) : out[k] = in[i]

---------------------------------------------------------------------------
(* Malformed input *)

\* The arguments the claim calls malformed: a centroid array with a column
\* count other than 2 or 4, a box length <= 0, an image height or width <= 1.
Malformed ==
    \/ call.fn = "make_centered_bboxes"
        /\ (call.centroids.shape1 \notin {2, 4} \/ call.box_length <= 0)
    \/ call.fn = "generate_merged_bboxes" /\ call.merged_box_length <= 0
    \/ call.fn = "normalize_bboxes"
        /\ (call.img_height <= 1 \/ call.img_width <= 1)

\* C8: malformed input ends in an error and returns no boxes.  (Any
\* exception is taken for the invalid-argument failure of the claim.)
MalformedInputIsRejected ==
    (ret.raised # "pending" /\ Malformed) =>
        ret.raised # "none" /\ ret.value = <<>>

---------------------------------------------------------------------------
(* Properties of extract_region_proposals *)

OnGrid(b) == \A k \in 1..4 : b[k] % G = 0

\* Every box that is compared with another box (by compute_iou, or by the
\* IoU of suppression) is on the quarter-pixel grid, where Quarters is exact:
\* the boxes of single calls, and the boxes of a sample with two or more.
ComparedBoxesOnGrid ==
    /\ call.fn = "compute_iou" => OnGrid(call.bbox1) /\ OnGrid(call.bbox2)
    /\ call.fn \in {"generate_merged_bboxes", "nms_bboxes"} =>
        \A k \in 1..Len(call.bboxes) : OnGrid(call.bboxes[k])
    /\ \A n \in 1..Len(sample_grouped_bboxes.keys) :
        LET bs == sample_grouped_bboxes.val[sample_grouped_bboxes.keys[n]]
        IN Len(bs) >= 2 => \A k \in 1..Len(bs) : OnGrid(bs[k])
    /\ Len(candidate_bboxes) >= 2 =>
        \A k \in 1..Len(candidate_bboxes) : OnGrid(candidate_bboxes[k])

\* round(x): to the nearest integer, a half to the even one.
RoundOf(u) ==
    LET f == u \div Q
        r == u % Q
    IN IF 2 * r < Q THEN f
       ELSE IF 2 * r > Q THEN f + 1
       ELSE IF f % 2 = 0 THEN f ELSE f + 1

RoundedSize(b) == <<RoundOf(b[3] - b[1]), RoundOf(b[4] - b[2])>>

\* The boxes of proposal set ps that came from sample s, in their order.
RECURSIVE BoxesOfSample(_, _, _)
BoxesOfSample(ps, s, i) ==
    IF i > Len(ps.bboxes) THEN <<>>
    ELSE (IF ps.sample_inds[i] = s THEN <<ps.bboxes[i]>> ELSE <<>>)
            \o BoxesOfSample(ps, s, i + 1)

\* The boxes of bs whose rounded size is size, in their order.
RECURSIVE BoxesOfSize(_, _, _)
BoxesOfSize(bs, size, i) ==
    IF i > Len(bs) THEN <<>>
    ELSE (IF RoundedSize(bs[i]) = size THEN <<bs[i]>> ELSE <<>>)
            \o BoxesOfSize(bs, size, i + 1)

\* The position of sample s among the samples that were suppressed.
SamplePosition(s) ==
    CHOOSE k \in 1..Len(merged_bboxes.keys) : merged_bboxes.keys[k] = s

\* C4: regrouping the surviving boxes by size is a total, stable partition:
\* each surviving (sample, box) occurrence appears exactly once across the
\* returned sets, in the set whose box_size is (round(y2-y1), round(x2-x1)) of
\* the box; within each set sample_inds[k] is the sample bboxes[k] came from,
\* sample_inds, bboxes and patches have equal length, and boxes keep their
\* relative order.
SizeGroupingIsStablePartition ==
    pc = "done" =>
        LET sets == region_proposal_sets
        IN /\ \A k \in 1..Len(sets) :
                /\ Len(sets[k].sample_inds) = Len(sets[k].bboxes)
                /\ Len(sets[k].patches) = Len(sets[k].bboxes)
                /\ \A i \in 1..Len(sets[k].bboxes) :
                    /\ sets[k].box_size = RoundedSize(sets[k].bboxes[i])
                    /\ HasKey(merged_bboxes, sets[k].sample_inds[i])
                    /\ sets[k].patches[i].image = sets[k].sample_inds[i]
                    /\ sets[k].patches[i].size = sets[k].box_size
                /\ \A i, j \in 1..Len(sets[k].bboxes) :
                    i < j => SamplePosition(sets[k].sample_inds[i])
                                <= SamplePosition(sets[k].sample_inds[j])
                /\ \A n \in 1..Len(merged_bboxes.keys) :
                    BoxesOfSample(sets[k], merged_bboxes.keys[n], 1) =
                        BoxesOfSize(merged_bboxes.val[merged_bboxes.keys[n]],
                                    sets[k].box_size, 1)
           /\ \A k, m \in 1..Len(sets) :
                k # m => sets[k].box_size # sets[m].box_size
           /\ \A n \in 1..Len(merged_bboxes.keys) :
                \A i \in 1..Len(merged_bboxes.val[merged_bboxes.keys[n]]) :
                    \E k \in 1..Len(sets) :
                        sets[k].box_size =
                            RoundedSize(merged_bboxes.val[merged_bboxes.keys[n]][i])

\* The two-centroid scenario: centroids of sample 0 at (10, 10) and (12, 12)
\* with positive scores, instance_box_length 20, merge_iou_threshold 0.1 and
\* nms_iou_threshold 0.25, after the sample was suppressed.
ScenarioSuppressed ==
    /\ pc \in {"size", "sets", "done"}
    /\ centroids.rows = ScenarioCentroids
    /\ \A k \in 1..Len(centroid_vals) : centroid_vals[k] > 0
    /\ instance_box_length = 20
    /\ merge_iou_threshold = Ratio(1, 10)
    /\ nms_iou_threshold = Ratio(1, 4)

\* One merged candidate with the sum of the two scores, and that candidate,
\* of height and width merged_box_length, the only box left for the sample.
OnlyMergedBoxSurvives ==
    /\ Len(candidate_bboxes) = 3
    /\ candidate_bbox_scores[3] = centroid_vals[1] + centroid_vals[2]
    /\ merged_bboxes.val[0] = <<candidate_bboxes[3]>>
    /\ candidate_bboxes[3][3] - candidate_bboxes[3][1] = merged_box_length * Q
    /\ candidate_bboxes[3][4] - candidate_bboxes[3][2] = merged_box_length * Q

BoxSizesAreInstanceOrMergedLength ==
    LET L == instance_box_length
        M == merged_box_length
        sets == region_proposal_sets
    IN /\ \A n \in 1..Len(merged_bboxes.keys) :
            \A i \in 1..Len(merged_bboxes.val[merged_bboxes.keys[n]]) :
                LET b == merged_bboxes.val[merged_bboxes.keys[n]][i]
                IN /\ b[3] - b[1] = b[4] - b[2]
                   /\ b[3] - b[1] \in {L * Q, M * Q}
                   /\ BoxSize(b) = RoundedSize(b)
       /\ pc = "done" =>
            /\ \A k \in 1..Len(sets) : sets[k].box_size \in {<<L, L>>, <<M, M>>}
            /\ Len(sets) <= 2
            /\ L = M => Len(sets) <= 1
            /\ Len(centroids.rows) = 1 =>
                /\ Len(sets) = 1
                /\ sets[1].box_size = <<L, L>>
                /\ Len(sets[1].bboxes) = 1
                /\ Len(sets[1].patches) = 1

=============================================================================
